---------------------------- MODULE Spec2Model ----------------------------
(***************************************************************************)
(* State IKE_SA_INIT_REQUESTED of the charon IKEv2 daemon                  *)
(* (Source/charon/sa/states/ike_sa_init_requested.c).                      *)
(*                                                                         *)
(* The model follows process_message() statement by statement: pc is the   *)
(* position inside the call, the other variables are the fields of the     *)
(* state object, the parts of the IKE_SA the function touches, the reply   *)
(* message, the locals of the function and the global send queue.          *)
(* Collaborators whose code is outside this file (message, payloads,       *)
(* diffie_hellman, init_config, ike_sa) return values chosen at the call.  *)
(***************************************************************************)
EXTENDS Integers, Sequences, FiniteSets, TLC

(* ------------------------------ bounds -------------------------------- *)

\* longest payload list of a reply
MaxPayloads == 3
\* largest number of proposals an SA payload carries
MaxProposals == 2
\* number of replies handed to the state before the model stops
MaxCalls == 2

(* ------------------------------ values -------------------------------- *)

FailureStatuses == {"FAILED", "PARSE_ERROR"}
Statuses == {"SUCCESS"} \cup FailureStatuses

ExchangeTypes == {"IKE_SA_INIT", "IKE_AUTH"}

\* chunk_t values: 0 is CHUNK_INITIALIZER (no buffer), anything else a buffer
CHUNK_INITIALIZER == 0
NonceValues == {1, 2}
SentNonceValues == {3}
KeValues == {1}
SpiValues == {1, 2}

\* a payload: its type and its content (proposal count, key exchange data,
\* nonce; 0 for a payload whose content the state never reads)
Payload ==
    [type : {"SECURITY_ASSOCIATION"}, val : 0..MaxProposals]
    \cup [type : {"KEY_EXCHANGE"}, val : KeValues]
    \cup [type : {"NONCE"}, val : NonceValues]
    \cup [type : {"ID_INITIATOR"}, val : {0}]

\* a reply as process_message sees it before it iterates: the header and the
\* length of the payload list; the payloads themselves are drawn one by one as
\* the iterator yields them
Reply == [exchange_type : ExchangeTypes, request : BOOLEAN,
          payload_count : 0..MaxPayloads]

VARIABLES
    pc,           \* position inside process_message, "idle" between calls,
                  \* "destroyed" once destroy() has run
    calls,        \* number of process_message calls started
    ret,          \* status returned by the last call ("NONE" before the first)
    reply,        \* the message handed to process_message
    reply_obj,    \* what happened to the reply object: parsed, destroyed
    this,         \* private_ike_sa_init_requested_t
    heap,         \* live buffers per chunk field, and double frees
    ike_sa,       \* the parts of protected_ike_sa_t the state reads and writes
    send_queue,   \* charon->send_queue
    status,       \* local status
    payloads,     \* local payloads: the iterator
    payload,      \* local payload: the current payload of the iteration
    ike_proposals,\* local ike_proposals: the list get_ike_proposals allocates
    request,      \* local request: the IKE_AUTH message
    packet,       \* local packet
    next_state,   \* local next_state: the ike_auth_requested_t object
    called,       \* per collaborator call: the status it returned in this call
    pre           \* this, heap, ike_sa and send_queue as they were when the call began

vars == <<pc, calls, ret, reply, reply_obj, this, heap, ike_sa, send_queue,
          status, payloads, payload, ike_proposals, request, packet,
          next_state, called, pre>>

locals == <<status, payloads, payload, ike_proposals, request, packet, next_state>>

\* the collaborator calls of process_message; called[c] is "NONE" until c is
\* called, then the status c returned (VOID for a call that returns none)
Calls == {"parse_body", "set_responder_spi", "get_ike_proposals",
          "select_proposal", "create_transforms_from_proposal",
          "set_other_public_value", "get_nonce", "get_shared_secret",
          "compute_secrets", "generate", "send_queue_add",
          "set_last_requested_message", "set_new_state",
          "destroy_after_state_change"}
VOID == "VOID"

\* the iterator: its position, and the types (seen) and contents (vals) of
\* the payloads it has yielded
NoIterator == [pos |-> 0, created |-> 0, destroyed |-> 0, seen |-> <<>>,
               vals |-> <<>>]
NoObject == [created |-> 0, destroyed |-> 0]
NoPayload == [type |-> "NONE", val |-> 0]

(* ------------------------- allocator and chunks ----------------------- *)

\* allocator_free(ptr) of a chunk field: nothing for a NULL pointer, else the
\* buffer is released; releasing a buffer that is not live is a double free
allocator_free(h, field, ptr) ==
    IF ptr = CHUNK_INITIALIZER THEN h
    ELSE IF h[field] = 0 THEN [h EXCEPT !.double_free = TRUE]
    ELSE [h EXCEPT ![field] = @ - 1]

\* a getter that clones a value into a freshly allocated buffer
allocator_alloc(h, field) == [h EXCEPT ![field] = @ + 1]

(* ----------------------------- constructor ---------------------------- *)

\* ike_sa_init_requested_create(ike_sa, dh_group_priority, diffie_hellman, sent_nonce)
ike_sa_init_requested_create(nonce) ==
    [diffie_hellman |-> [other_public_value |-> CHUNK_INITIALIZER, destroyed |-> 0],
     shared_secret  |-> CHUNK_INITIALIZER,
     sent_nonce     |-> nonce,
     received_nonce |-> CHUNK_INITIALIZER,
     freed          |-> 0]

Init ==
    /\ pc = "idle"
    /\ calls = 0
    /\ ret = "NONE"
    /\ reply = [exchange_type |-> "IKE_SA_INIT", request |-> FALSE, payload_count |-> 0]
    /\ reply_obj = [parsed |-> FALSE, destroyed |-> 0, spi |-> 0]
    /\ \E n \in SentNonceValues : this = ike_sa_init_requested_create(n)
    /\ heap = [sent_nonce |-> 1, received_nonce |-> 0, shared_secret |-> 0,
               double_free |-> FALSE]
    /\ ike_sa = [responder_spi |-> 0,
                 current_state |-> "IKE_SA_INIT_REQUESTED",
                 transforms |-> FALSE,
                 secrets |-> <<>>,
                 last_requested_message |-> FALSE]
    /\ send_queue = <<>>
    /\ status = "NONE"
    /\ payloads = NoIterator
    /\ payload = NoPayload
    /\ ike_proposals = [created |-> 0, destroyed |-> 0, count |-> 0]
    /\ request = NoObject
    /\ packet = FALSE
    /\ next_state = NoObject
    /\ called = [c \in Calls |-> "NONE"]
    /\ pre = [this |-> this, heap |-> heap, ike_sa |-> ike_sa,
              send_queue |-> send_queue]


(* --------------------------- collaborators ---------------------------- *)

\* diffie_hellman_t.get_shared_secret: the secret the local key pair and the
\* peer's public value give; without a peer public value there is none
SharedSecretOf(pub) == pub + 10

SharedSecretStatuses(dh) ==
    IF dh.other_public_value = CHUNK_INITIALIZER THEN FailureStatuses ELSE Statuses

\* the packet message_t.generate produces for the IKE_AUTH request
AuthPacket == [exchange_type |-> "IKE_AUTH", request |-> TRUE]

(* --------------------------- process_message -------------------------- *)

\* return s: the call ends with status s
Return(s) == pc' = "idle" /\ ret' = s

\* payloads->destroy(payloads)
iterator_destroy(it) == [it EXCEPT !.destroyed = @ + 1]

\* entry of process_message and the exchange type check
process_message(r) ==
    /\ pc = "idle"
    /\ calls < MaxCalls
    /\ ike_sa.current_state = "IKE_SA_INIT_REQUESTED"
    /\ this.freed = 0
    /\ calls' = calls + 1
    /\ reply' = r
    /\ reply_obj' = [parsed |-> FALSE, destroyed |-> 0, spi |-> 0]
    /\ pre' = [this |-> this, heap |-> heap, ike_sa |-> ike_sa,
               send_queue |-> send_queue]
    /\ called' = [c \in Calls |-> "NONE"]
    /\ status' = "NONE"
    /\ payloads' = NoIterator
    /\ payload' = NoPayload
    /\ ike_proposals' = [created |-> 0, destroyed |-> 0, count |-> 0]
    /\ request' = NoObject
    /\ packet' = FALSE
    /\ next_state' = NoObject
    /\ IF r.exchange_type # "IKE_SA_INIT"
         THEN Return("FAILED")
         ELSE pc' = "get_request" /\ ret' = "NONE"
    /\ UNCHANGED <<this, heap, ike_sa, send_queue>>

\* mutant of get_request: the direction of the message is not checked
get_request_ignored ==
    /\ pc = "get_request"
    /\ pc' = "parse_body"
    /\ UNCHANGED <<calls, ret, reply, reply_obj, this, heap, ike_sa, send_queue,
                   locals, called, pre>>

\* if (reply->get_request(reply)) return FAILED
get_request ==
    /\ pc = "get_request"
    /\ IF reply.request
         THEN Return("FAILED")
         ELSE pc' = "parse_body" /\ UNCHANGED ret
    /\ UNCHANGED <<calls, reply, reply_obj, this, heap, ike_sa, send_queue,
                   locals, called, pre>>

\* mutant of parse_body: a parse failure is reported as FAILED
parse_body_masked ==
    /\ pc = "parse_body"
    /\ \E s \in Statuses :
        /\ status' = s
        /\ called' = [called EXCEPT !["parse_body"] = s]
        /\ IF s # "SUCCESS"
             THEN Return("FAILED") /\ UNCHANGED reply_obj
             ELSE /\ reply_obj' = [reply_obj EXCEPT !.parsed = TRUE]
                  /\ pc' = "set_responder_spi" /\ UNCHANGED ret
    /\ UNCHANGED <<calls, reply, this, heap, ike_sa, send_queue, payloads,
                   payload, ike_proposals, request, packet, next_state, pre>>

\* status = reply->parse_body(reply, NULL, NULL)
parse_body ==
    /\ pc = "parse_body"
    /\ \E s \in Statuses :
        /\ status' = s
        /\ called' = [called EXCEPT !["parse_body"] = s]
        /\ IF s # "SUCCESS"
             THEN Return(s) /\ UNCHANGED reply_obj
             ELSE /\ reply_obj' = [reply_obj EXCEPT !.parsed = TRUE]
                  /\ pc' = "set_responder_spi" /\ UNCHANGED ret
    /\ UNCHANGED <<calls, reply, this, heap, ike_sa, send_queue, payloads,
                   payload, ike_proposals, request, packet, next_state, pre>>

\* mutant of set_responder_spi: the SPI is read but not stored in the IKE_SA id
set_responder_spi_dropped ==
    /\ pc = "set_responder_spi"
    /\ \E spi \in SpiValues :
        reply_obj' = [reply_obj EXCEPT !.spi = spi]
    /\ called' = [called EXCEPT !["set_responder_spi"] = VOID]
    /\ pc' = "get_payload_iterator"
    /\ UNCHANGED <<calls, ret, reply, this, heap, ike_sa, send_queue, locals, pre>>

\* responder_spi = reply->get_responder_spi(reply);
\* ike_sa_id->set_responder_spi(ike_sa_id, responder_spi)
set_responder_spi ==
    /\ pc = "set_responder_spi"
    /\ \E spi \in SpiValues :
        /\ reply_obj' = [reply_obj EXCEPT !.spi = spi]
        /\ ike_sa' = [ike_sa EXCEPT !.responder_spi = spi]
    /\ called' = [called EXCEPT !["set_responder_spi"] = VOID]
    /\ pc' = "get_payload_iterator"
    /\ UNCHANGED <<calls, ret, reply, this, heap, send_queue, locals, pre>>

\* payloads = reply->get_payload_iterator(reply)
get_payload_iterator ==
    /\ pc = "get_payload_iterator"
    /\ payloads' = [NoIterator EXCEPT !.created = 1]
    /\ pc' = "has_next"
    /\ UNCHANGED <<calls, ret, reply, reply_obj, this, heap, ike_sa, send_queue,
                   status, payload, ike_proposals, request, packet, next_state,
                   called, pre>>

\* mutant of has_next: the iterator yields a payload without advancing
has_next_stuck ==
    /\ pc = "has_next"
    /\ IF payloads.pos < reply.payload_count
         THEN /\ \E p \in Payload :
                    /\ payload' = p
                    /\ pc' = IF p.type \in {"SECURITY_ASSOCIATION", "KEY_EXCHANGE", "NONCE"}
                               THEN p.type ELSE "default"
              /\ UNCHANGED payloads
         ELSE /\ pc' = "payloads_destroy"
              /\ UNCHANGED <<payloads, payload>>
    /\ UNCHANGED <<calls, ret, reply, reply_obj, this, heap, ike_sa, send_queue,
                   status, ike_proposals, request, packet, next_state, called, pre>>

\* while (payloads->has_next(payloads)) { payloads->current(...); switch (type)
has_next ==
    /\ pc = "has_next"
    /\ IF payloads.pos < reply.payload_count
         THEN /\ \E p \in Payload :
                    /\ payloads' = [payloads EXCEPT !.pos = @ + 1,
                                                    !.seen = Append(@, p.type),
                                                    !.vals = Append(@, p.val)]
                    /\ payload' = p
                    /\ pc' = IF p.type \in {"SECURITY_ASSOCIATION", "KEY_EXCHANGE", "NONCE"}
                               THEN p.type ELSE "default"
         ELSE /\ pc' = "payloads_destroy"
              /\ UNCHANGED <<payloads, payload>>
    /\ UNCHANGED <<calls, ret, reply, reply_obj, this, heap, ike_sa, send_queue,
                   status, ike_proposals, request, packet, next_state, called, pre>>

\* case SECURITY_ASSOCIATION: status = sa_payload->get_ike_proposals(...)
get_ike_proposals ==
    /\ pc = "SECURITY_ASSOCIATION"
    /\ \E s \in Statuses :
        /\ status' = s
        /\ called' = [called EXCEPT !["get_ike_proposals"] = s]
        /\ IF s # "SUCCESS"
             THEN /\ payloads' = iterator_destroy(payloads)
                  /\ Return(s)
                  /\ UNCHANGED ike_proposals
             ELSE /\ ike_proposals' = [created |-> 1, destroyed |-> 0,
                                       count |-> payload.val]
                  /\ pc' = "proposal_count" /\ UNCHANGED <<ret, payloads>>
    /\ UNCHANGED <<calls, reply, reply_obj, this, heap, ike_sa, send_queue,
                   payload, request, packet, next_state, pre>>

\* if (proposal_count != 1) { allocator_free(ike_proposals);
\*     payloads->destroy(payloads); return status; }
proposal_count ==
    /\ pc = "proposal_count"
    /\ IF ike_proposals.count # 1
         THEN /\ ike_proposals' = [ike_proposals EXCEPT !.destroyed = @ + 1]
              /\ payloads' = iterator_destroy(payloads)
              /\ Return(status)
         ELSE /\ pc' = "select_proposal"
              /\ UNCHANGED <<ret, ike_proposals, payloads>>
    /\ UNCHANGED <<calls, reply, reply_obj, this, heap, ike_sa, send_queue,
                   status, payload, request, packet, next_state, called, pre>>

\* status = init_config->select_proposal(init_config, ike_proposals, 1, ...);
\* allocator_free(ike_proposals)
select_proposal ==
    /\ pc = "select_proposal"
    /\ ike_proposals' = [ike_proposals EXCEPT !.destroyed = @ + 1]
    /\ \E s \in Statuses :
        /\ status' = s
        /\ called' = [called EXCEPT !["select_proposal"] = s]
        /\ IF s # "SUCCESS"
             THEN payloads' = iterator_destroy(payloads) /\ Return(s)
             ELSE pc' = "create_transforms_from_proposal" /\ UNCHANGED <<ret, payloads>>
    /\ UNCHANGED <<calls, reply, reply_obj, this, heap, ike_sa, send_queue,
                   payload, request, packet, next_state, pre>>

\* status = this->ike_sa->create_transforms_from_proposal(...)
create_transforms_from_proposal ==
    /\ pc = "create_transforms_from_proposal"
    /\ \E s \in Statuses :
        /\ status' = s
        /\ called' = [called EXCEPT !["create_transforms_from_proposal"] = s]
        /\ IF s # "SUCCESS"
             THEN /\ payloads' = iterator_destroy(payloads)
                  /\ Return(s)
                  /\ UNCHANGED ike_sa
             ELSE /\ ike_sa' = [ike_sa EXCEPT !.transforms = TRUE]
                  /\ pc' = "has_next" /\ UNCHANGED <<ret, payloads>>
    /\ UNCHANGED <<calls, reply, reply_obj, this, heap, send_queue, payload,
                   ike_proposals, request, packet, next_state, pre>>

\* mutant of set_other_public_value: the peer's value is fed only once the
\* transforms of the SA payload exist
set_other_public_value_after_sa ==
    /\ pc = "KEY_EXCHANGE"
    /\ this' = IF ike_sa.transforms
                 THEN [this EXCEPT !.diffie_hellman.other_public_value = payload.val]
                 ELSE this
    /\ called' = [called EXCEPT !["set_other_public_value"] = VOID]
    /\ pc' = "has_next"
    /\ UNCHANGED <<calls, ret, reply, reply_obj, heap, ike_sa, send_queue,
                   locals, pre>>

\* case KEY_EXCHANGE: this->diffie_hellman->set_other_public_value(...)
set_other_public_value ==
    /\ pc = "KEY_EXCHANGE"
    /\ this' = [this EXCEPT !.diffie_hellman.other_public_value = payload.val]
    /\ called' = [called EXCEPT !["set_other_public_value"] = VOID]
    /\ pc' = "has_next"
    /\ UNCHANGED <<calls, ret, reply, reply_obj, heap, ike_sa, send_queue,
                   locals, pre>>

\* mutant of get_nonce: the stored buffer is not released before it is overwritten
get_nonce_leaks ==
    /\ pc = "NONCE"
    /\ heap' = allocator_alloc(heap, "received_nonce")
    /\ this' = [this EXCEPT !.received_nonce = payload.val]
    /\ called' = [called EXCEPT !["get_nonce"] = VOID]
    /\ pc' = "has_next"
    /\ UNCHANGED <<calls, ret, reply, reply_obj, ike_sa, send_queue, locals, pre>>

\* case NONCE: allocator_free(this->received_nonce.ptr);
\* this->received_nonce = CHUNK_INITIALIZER; nonce_payload->get_nonce(...)
get_nonce ==
    /\ pc = "NONCE"
    /\ heap' = allocator_alloc(
                  allocator_free(heap, "received_nonce", this.received_nonce),
                  "received_nonce")
    /\ this' = [this EXCEPT !.received_nonce = payload.val]
    /\ called' = [called EXCEPT !["get_nonce"] = VOID]
    /\ pc' = "has_next"
    /\ UNCHANGED <<calls, ret, reply, reply_obj, ike_sa, send_queue, locals, pre>>

\* mutant of default: the unsupported payload is skipped
default_skips ==
    /\ pc = "default"
    /\ pc' = "has_next"
    /\ UNCHANGED <<calls, ret, reply, reply_obj, this, heap, ike_sa, send_queue,
                   locals, called, pre>>

\* default: payloads->destroy(payloads); return FAILED
default ==
    /\ pc = "default"
    /\ payloads' = iterator_destroy(payloads)
    /\ Return("FAILED")
    /\ UNCHANGED <<calls, reply, reply_obj, this, heap, ike_sa, send_queue,
                   status, payload, ike_proposals, request, packet, next_state,
                   called, pre>>

\* payloads->destroy(payloads) after the loop
payloads_destroy ==
    /\ pc = "payloads_destroy"
    /\ payloads' = iterator_destroy(payloads)
    /\ pc' = "get_shared_secret"
    /\ UNCHANGED <<calls, ret, reply, reply_obj, this, heap, ike_sa, send_queue,
                   status, payload, ike_proposals, request, packet, next_state,
                   called, pre>>

\* allocator_free(this->shared_secret.ptr); this->shared_secret = CHUNK_INITIALIZER;
\* status = this->diffie_hellman->get_shared_secret(..., &(this->shared_secret))
get_shared_secret ==
    /\ pc = "get_shared_secret"
    /\ \E s \in SharedSecretStatuses(this.diffie_hellman) :
        /\ status' = s
        /\ called' = [called EXCEPT !["get_shared_secret"] = s]
        /\ IF s = "SUCCESS"
             THEN /\ this' = [this EXCEPT !.shared_secret =
                                SharedSecretOf(this.diffie_hellman.other_public_value)]
                  /\ heap' = allocator_alloc(
                                allocator_free(heap, "shared_secret", this.shared_secret),
                                "shared_secret")
             ELSE /\ this' = [this EXCEPT !.shared_secret = CHUNK_INITIALIZER]
                  /\ heap' = allocator_free(heap, "shared_secret", this.shared_secret)
    /\ pc' = "compute_secrets"
    /\ UNCHANGED <<calls, ret, reply, reply_obj, ike_sa, send_queue, payloads,
                   payload, ike_proposals, request, packet, next_state, pre>>

\* this->ike_sa->compute_secrets(this->ike_sa, this->shared_secret,
\*                               this->sent_nonce, this->received_nonce)
compute_secrets ==
    /\ pc = "compute_secrets"
    /\ ike_sa' = [ike_sa EXCEPT !.secrets =
                    <<this.shared_secret, this.sent_nonce, this.received_nonce>>]
    /\ called' = [called EXCEPT !["compute_secrets"] = VOID]
    /\ pc' = "build_ike_auth_request"
    /\ UNCHANGED <<calls, ret, reply, reply_obj, this, heap, send_queue, locals, pre>>

\* this->build_ike_auth_request(this, &request)
build_ike_auth_request ==
    /\ pc = "build_ike_auth_request"
    /\ request' = [created |-> 1, destroyed |-> 0]
    /\ pc' = "generate"
    /\ UNCHANGED <<calls, ret, reply, reply_obj, this, heap, ike_sa, send_queue,
                   status, payloads, payload, ike_proposals, packet, next_state,
                   called, pre>>

\* mutant of generate: the failure path leaves the reply to the caller
generate_keeps_reply ==
    /\ pc = "generate"
    /\ \E s \in Statuses :
        /\ status' = s
        /\ called' = [called EXCEPT !["generate"] = s]
        /\ IF s # "SUCCESS"
             THEN Return(s) /\ UNCHANGED packet
             ELSE packet' = TRUE /\ pc' = "send_queue_add" /\ UNCHANGED ret
    /\ UNCHANGED <<calls, reply, reply_obj, this, heap, ike_sa, send_queue,
                   payloads, payload, ike_proposals, request, next_state, pre>>

\* mutant of generate: the status of generate is not checked
generate_unchecked ==
    /\ pc = "generate"
    /\ \E s \in Statuses :
        /\ status' = s
        /\ called' = [called EXCEPT !["generate"] = s]
    /\ packet' = TRUE
    /\ pc' = "send_queue_add"
    /\ UNCHANGED <<calls, ret, reply, reply_obj, this, heap, ike_sa, send_queue,
                   payloads, payload, ike_proposals, request, next_state, pre>>

\* status = request->generate(request, crypter, signer, &packet)
generate ==
    /\ pc = "generate"
    /\ \E s \in Statuses :
        /\ status' = s
        /\ called' = [called EXCEPT !["generate"] = s]
        /\ IF s # "SUCCESS"
             THEN /\ reply_obj' = [reply_obj EXCEPT !.destroyed = @ + 1]
                  /\ Return(s)
                  /\ UNCHANGED packet
             ELSE /\ packet' = TRUE
                  /\ pc' = "send_queue_add" /\ UNCHANGED <<ret, reply_obj>>
    /\ UNCHANGED <<calls, reply, this, heap, ike_sa, send_queue, payloads,
                   payload, ike_proposals, request, next_state, pre>>

\* mutant of send_queue_add: the packet is added twice
send_queue_add_twice ==
    /\ pc = "send_queue_add"
    /\ send_queue' = Append(Append(send_queue, AuthPacket), AuthPacket)
    /\ called' = [called EXCEPT !["send_queue_add"] = VOID]
    /\ pc' = "ike_auth_requested_create"
    /\ UNCHANGED <<calls, ret, reply, reply_obj, this, heap, ike_sa, locals, pre>>

\* charon->send_queue->add(charon->send_queue, packet)
send_queue_add ==
    /\ pc = "send_queue_add"
    /\ send_queue' = Append(send_queue, AuthPacket)
    /\ called' = [called EXCEPT !["send_queue_add"] = VOID]
    /\ pc' = "ike_auth_requested_create"
    /\ UNCHANGED <<calls, ret, reply, reply_obj, this, heap, ike_sa, locals, pre>>

\* next_state = ike_auth_requested_create(this->ike_sa)
ike_auth_requested_create ==
    /\ pc = "ike_auth_requested_create"
    /\ next_state' = [created |-> 1, destroyed |-> 0]
    /\ pc' = "set_last_requested_message"
    /\ UNCHANGED <<calls, ret, reply, reply_obj, this, heap, ike_sa, send_queue,
                   status, payloads, payload, ike_proposals, request, packet,
                   called, pre>>

\* mutant of set_last_requested_message: the failure path leaves the new
\* state object allocated
set_last_requested_message_leaky ==
    /\ pc = "set_last_requested_message"
    /\ \E s \in Statuses :
        /\ status' = s
        /\ called' = [called EXCEPT !["set_last_requested_message"] = s]
        /\ IF s # "SUCCESS"
             THEN /\ request' = [request EXCEPT !.destroyed = @ + 1]
                  /\ Return(s)
                  /\ UNCHANGED ike_sa
             ELSE /\ ike_sa' = [ike_sa EXCEPT !.last_requested_message = TRUE]
                  /\ pc' = "set_new_state"
                  /\ UNCHANGED <<ret, request>>
    /\ UNCHANGED <<calls, reply, reply_obj, this, heap, send_queue, payloads,
                   payload, ike_proposals, packet, next_state, pre>>

\* status = this->ike_sa->set_last_requested_message(this->ike_sa, request)
set_last_requested_message ==
    /\ pc = "set_last_requested_message"
    /\ \E s \in Statuses :
        /\ status' = s
        /\ called' = [called EXCEPT !["set_last_requested_message"] = s]
        /\ IF s # "SUCCESS"
             THEN /\ next_state' = [next_state EXCEPT !.destroyed = @ + 1]
                  /\ request' = [request EXCEPT !.destroyed = @ + 1]
                  /\ Return(s)
                  /\ UNCHANGED ike_sa
             ELSE /\ ike_sa' = [ike_sa EXCEPT !.last_requested_message = TRUE]
                  /\ pc' = "set_new_state"
                  /\ UNCHANGED <<ret, next_state, request>>
    /\ UNCHANGED <<calls, reply, reply_obj, this, heap, send_queue, payloads,
                   payload, ike_proposals, packet, pre>>

\* mutant of set_new_state: the successor is not installed before the cleanup
set_new_state_skipped ==
    /\ pc = "set_new_state"
    /\ called' = [called EXCEPT !["set_new_state"] = VOID]
    /\ pc' = "destroy_after_state_change"
    /\ UNCHANGED <<calls, ret, reply, reply_obj, this, heap, ike_sa, send_queue,
                   locals, pre>>

\* this->ike_sa->set_new_state(this->ike_sa, (state_t *) next_state)
set_new_state ==
    /\ pc = "set_new_state"
    /\ ike_sa' = [ike_sa EXCEPT !.current_state = "IKE_AUTH_REQUESTED"]
    /\ called' = [called EXCEPT !["set_new_state"] = VOID]
    /\ pc' = "destroy_after_state_change"
    /\ UNCHANGED <<calls, ret, reply, reply_obj, this, heap, send_queue, locals, pre>>

\* the release list destroy_after_state_change and destroy share
release(t) ==
    [t EXCEPT !.diffie_hellman.destroyed = @ + 1, !.freed = @ + 1]

\* mutant of release_chunks: the shared secret is left allocated
release_chunks_partial(h, t) ==
    allocator_free(
        allocator_free(h, "sent_nonce", t.sent_nonce),
        "received_nonce", t.received_nonce)

release_chunks(h, t) ==
    allocator_free(
        allocator_free(
            allocator_free(h, "sent_nonce", t.sent_nonce),
            "received_nonce", t.received_nonce),
        "shared_secret", t.shared_secret)

\* this->destroy_after_state_change(this); return SUCCESS
destroy_after_state_change ==
    /\ pc = "destroy_after_state_change"
    /\ this' = release(this)
    /\ heap' = release_chunks(heap, this)
    /\ called' = [called EXCEPT !["destroy_after_state_change"] = VOID]
    /\ Return("SUCCESS")
    /\ UNCHANGED <<calls, reply, reply_obj, ike_sa, send_queue, locals, pre>>

\* state_t.destroy, called by the owner of a state that made no transition
destroy ==
    /\ pc = "idle"
    /\ ike_sa.current_state = "IKE_SA_INIT_REQUESTED"
    /\ this.freed = 0
    /\ this' = release(this)
    /\ heap' = release_chunks(heap, this)
    /\ pc' = "destroyed"
    /\ UNCHANGED <<calls, ret, reply, reply_obj, ike_sa, send_queue, locals,
                   called, pre>>

Next ==
    \/ \E r \in Reply : process_message(r)
    \/ get_request
    \/ parse_body
    \/ set_responder_spi
    \/ get_payload_iterator
    \/ has_next
    \/ get_ike_proposals
    \/ proposal_count
    \/ select_proposal
    \/ create_transforms_from_proposal
    \/ set_other_public_value
    \/ get_nonce
    \/ default
    \/ payloads_destroy
    \/ get_shared_secret
    \/ compute_secrets
    \/ build_ike_auth_request
    \/ generate
    \/ send_queue_add
    \/ ike_auth_requested_create
    \/ set_last_requested_message
    \/ set_new_state
    \/ destroy_after_state_change
    \/ destroy

Spec == Init /\ [][Next]_vars

\* the statements of process_message after its entry
Step ==
    \/ get_request
    \/ parse_body
    \/ set_responder_spi
    \/ get_payload_iterator
    \/ has_next
    \/ get_ike_proposals
    \/ proposal_count
    \/ select_proposal
    \/ create_transforms_from_proposal
    \/ set_other_public_value
    \/ get_nonce
    \/ default
    \/ payloads_destroy
    \/ get_shared_secret
    \/ compute_secrets
    \/ build_ike_auth_request
    \/ generate
    \/ send_queue_add
    \/ ike_auth_requested_create
    \/ set_last_requested_message
    \/ set_new_state
    \/ destroy_after_state_change

\* the first reply handed to a newly constructed state object
first_call(r) == calls = 0 /\ process_message(r)

SingleCallNext ==
    \/ \E r \in Reply : first_call(r)
    \/ Step
    \/ destroy

\* one call of process_message on the state as constructed, then destroy().
\* process_message is a synchronous function call: once entered, its next
\* statement is executed (nothing in it waits for I/O or for another thread)
SingleCallSpec == Init /\ [][SingleCallNext]_vars /\ WF_vars(Step)

TypeOK ==
    /\ ret \in Statuses \cup {"NONE"}
    /\ calls \in 0..MaxCalls
    /\ Len(send_queue) <= calls


(* ------------------------------ claims -------------------------------- *)

\* a call of process_message has returned and destroy() has not run since
Returned == pc = "idle" /\ ret # "NONE"

Supported == {"SECURITY_ASSOCIATION", "KEY_EXCHANGE", "NONCE"}

HeaderValid == reply.exchange_type = "IKE_SA_INIT" /\ ~reply.request

\* no collaborator called so far in this call has returned a failure
AllSucceeded == \A c \in Calls : called[c] \notin FailureStatuses

\* the payloads yielded so far are of the three supported types, each at most once
OneOfEach(seen) ==
    /\ \A i \in 1..Len(seen) : seen[i] \in Supported
    /\ \A i, j \in 1..Len(seen) : i # j => seen[i] # seen[j]

\* the SA payload met so far, if any, carries exactly one proposal
SingleProposal ==
    /\ payload.type = "SECURITY_ASSOCIATION" => payload.val = 1
    /\ ike_proposals.created = 1 => ike_proposals.count = 1

\* every chunk field of the state object that holds a pointer holds a live buffer
ChunksLive ==
    /\ ~heap.double_free
    /\ heap.sent_nonce = 1
    /\ heap.received_nonce = (IF this.received_nonce = CHUNK_INITIALIZER THEN 0 ELSE 1)
    /\ heap.shared_secret = (IF this.shared_secret = CHUNK_INITIALIZER THEN 0 ELSE 1)

\* C1: a call on an IKE_SA_INIT response of three payloads, one SA with a
\* single proposal, one KE and one NONCE in any order, in which no
\* collaborator fails, can only return SUCCESS, with the IKE_SA in state
\* IKE_AUTH_REQUESTED, its responder SPI the one of the reply header and
\* exactly one IKE_AUTH request packet added to the send queue.
C1_ValidReplySucceeds ==
    (/\ Returned
     /\ HeaderValid
     /\ reply.payload_count = 3
     /\ OneOfEach(payloads.seen)
     /\ SingleProposal
     /\ AllSucceeded)
    => /\ ret = "SUCCESS"
       /\ Len(payloads.seen) = 3
       /\ ike_sa.current_state = "IKE_AUTH_REQUESTED"
       /\ called["set_responder_spi"] = VOID
       /\ ike_sa.responder_spi = reply_obj.spi
       /\ send_queue = Append(pre.send_queue, AuthPacket)

\* C1 witness: a second call succeeds on a reply whose SA payload comes
\* after the NONCE, and replaces the responder SPI an earlier reply left.
C1_Witness ==
    /\ Returned /\ ret = "SUCCESS" /\ calls = 2
    /\ payloads.seen = <<"NONCE", "SECURITY_ASSOCIATION", "KEY_EXCHANGE">>
    /\ pre.ike_sa.responder_spi # 0
    /\ ike_sa.responder_spi # pre.ike_sa.responder_spi

\* C2: a call that returns because the SA payload's proposal list does not
\* hold exactly one proposal returns a failure status, leaves the state
\* IKE_SA_INIT_REQUESTED and has released the proposal list and the payload
\* iterator once each.
C2_ProposalCountFails ==
    (Returned /\ ike_proposals.created = 1 /\ ike_proposals.count # 1)
    => /\ ret # "SUCCESS"
       /\ ike_sa.current_state = "IKE_SA_INIT_REQUESTED"
       /\ ike_proposals.destroyed = 1
       /\ payloads.destroyed = 1

\* C3: a call on a reply that is a request, or whose exchange type is not
\* IKE_SA_INIT, returns a failure status and has changed nothing: the IKE_SA
\* (state, responder SPI), the state object (DH object, nonces, shared
\* secret), the heap and the send queue are as before the call, the body
\* was not parsed and the reply was not released.
C3_MismatchChangesNothing ==
    (Returned /\ ~HeaderValid)
    => /\ ret \in FailureStatuses
       /\ ike_sa = pre.ike_sa
       /\ ike_sa.current_state = "IKE_SA_INIT_REQUESTED"
       /\ this = pre.this
       /\ heap = pre.heap
       /\ send_queue = pre.send_queue
       /\ called["parse_body"] = "NONE"
       /\ ~reply_obj.parsed
       /\ reply_obj.destroyed = 0

\* C3 witness: a request is refused by a state object that already holds a
\* received nonce, a peer public value and a responder SPI from an earlier call.
C3_Witness ==
    /\ Returned /\ reply.request /\ reply.exchange_type = "IKE_SA_INIT"
    /\ calls = 2
    /\ this.received_nonce # CHUNK_INITIALIZER
    /\ this.diffie_hellman.other_public_value # CHUNK_INITIALIZER
    /\ ike_sa.responder_spi # 0

\* C4: a call in which generate() failed returns the status generate()
\* returned, leaves the state IKE_SA_INIT_REQUESTED, has constructed no
\* successor state, has released the reply and has added no packet to the
\* send queue.
C4_GenerateFailure ==
    (Returned /\ called["generate"] \in FailureStatuses)
    => /\ ret = called["generate"]
       /\ ike_sa.current_state = "IKE_SA_INIT_REQUESTED"
       /\ next_state.created = 0
       /\ reply_obj.destroyed = 1
       /\ called["send_queue_add"] = "NONE"
       /\ send_queue = pre.send_queue

\* C4 witness: generate() failed with a status other than FAILED, after the
\* transforms were created and the secrets computed.
C4_Witness ==
    /\ Returned /\ called["generate"] = "PARSE_ERROR"
    /\ called["create_transforms_from_proposal"] = "SUCCESS"
    /\ called["compute_secrets"] = VOID

\* C5: a call in which generate() failed has released the IKE_AUTH request
\* it built, as well as the reply.
C5_RequestReleased ==
    (Returned /\ called["generate"] \in FailureStatuses)
    => /\ request.created = 1 /\ request.destroyed = 1
       /\ reply_obj.destroyed = 1

\* C6: a call in which set_last_requested_message failed returns that
\* status, leaves the IKE_SA_INIT_REQUESTED object installed (set_new_state
\* is not called), has destroyed the new IKE_AUTH_REQUESTED object and the
\* request once each, and has released neither the DH object nor the chunks
\* nor the state object.
C6_LastRequestedMessageFailure ==
    (Returned /\ called["set_last_requested_message"] \in FailureStatuses)
    => /\ ret = called["set_last_requested_message"]
       /\ ike_sa.current_state = "IKE_SA_INIT_REQUESTED"
       /\ called["set_new_state"] = "NONE"
       /\ next_state = [created |-> 1, destroyed |-> 1]
       /\ request = [created |-> 1, destroyed |-> 1]
       /\ this.diffie_hellman.destroyed = 0
       /\ this.freed = 0
       /\ ChunksLive

\* C6 witness: set_last_requested_message failed in a call that had stored
\* a received nonce and a shared secret.
C6_Witness ==
    /\ Returned /\ called["set_last_requested_message"] = "PARSE_ERROR"
    /\ this.received_nonce # CHUNK_INITIALIZER
    /\ this.shared_secret # CHUNK_INITIALIZER

\* C7: once get_shared_secret has returned a failure status, the call
\* neither computes secrets nor generates or enqueues a packet, and it
\* returns a failure status with the state still IKE_SA_INIT_REQUESTED.
C7_SharedSecretFailure ==
    called["get_shared_secret"] \in FailureStatuses
    => /\ called["compute_secrets"] = "NONE"
       /\ called["generate"] = "NONE"
       /\ called["send_queue_add"] = "NONE"
       /\ Returned => /\ ret \in FailureStatuses
                      /\ ike_sa.current_state = "IKE_SA_INIT_REQUESTED"

\* C8: a payload of a type other than SA, KE and NONCE is the last payload
\* the iterator yields: the call then destroys the iterator once and
\* returns FAILED with the state still IKE_SA_INIT_REQUESTED and no packet
\* enqueued, whatever payloads follow in the message.
C8_UnsupportedPayloadStops ==
    /\ \A i \in 1..Len(payloads.seen) :
          payloads.seen[i] \notin Supported
          => /\ i = Len(payloads.seen)
             /\ pc \in {"default", "idle", "destroyed"}
    /\ (Returned /\ payload.type \notin Supported \cup {"NONE"})
       => /\ ret = "FAILED"
          /\ payloads.destroyed = 1
          /\ payloads.pos = Len(payloads.seen)
          /\ ike_sa.current_state = "IKE_SA_INIT_REQUESTED"
          /\ called["get_shared_secret"] = "NONE"
          /\ send_queue = pre.send_queue

\* C8 witness: the unsupported payload came second of three, after a NONCE
\* was stored; the third payload was never yielded.
C8_Witness ==
    /\ Returned /\ payload.type = "ID_INITIATOR"
    /\ payloads.seen = <<"NONCE", "ID_INITIATOR">>
    /\ reply.payload_count = 3

\* C9: a call in which parse_body failed returns exactly the status
\* parse_body returned, with the IKE_SA (responder SPI, state) as before the
\* call, no payload iterated and no packet enqueued; and the responder SPI
\* is written only in calls whose reply passed the exchange type, direction
\* and parse checks.
C9_ParseFailure ==
    /\ (Returned /\ called["parse_body"] \in FailureStatuses)
       => /\ ret = called["parse_body"]
          /\ ike_sa = pre.ike_sa
          /\ ike_sa.current_state = "IKE_SA_INIT_REQUESTED"
          /\ called["set_responder_spi"] = "NONE"
          /\ payloads = NoIterator
          /\ send_queue = pre.send_queue
    /\ (called["set_responder_spi"] # "NONE"
        \/ ike_sa.responder_spi # pre.ike_sa.responder_spi)
       => HeaderValid /\ called["parse_body"] = "SUCCESS"

\* C9 witness: parse_body failed with PARSE_ERROR in a second call, the
\* first having recorded a responder SPI.
C9_Witness ==
    /\ Returned /\ called["parse_body"] = "PARSE_ERROR" /\ ret = "PARSE_ERROR"
    /\ calls = 2 /\ ike_sa.responder_spi # 0

\* C10: set_new_state is called only after set_last_requested_message
\* returned SUCCESS in the same call; the DH object, the sent nonce and the
\* state object are released by the cleanup only after set_new_state has
\* installed the successor; and during and between calls the current
\* state of the IKE_SA is never a destroyed object.
C10_SwapBeforeCleanup ==
    /\ (pc = "set_new_state" \/ called["set_new_state"] # "NONE")
       => called["set_last_requested_message"] = "SUCCESS"
    /\ called["destroy_after_state_change"] # "NONE"
       => called["set_new_state"] # "NONE"
    /\ pc # "destroyed"
       => /\ (this.freed > 0 \/ this.diffie_hellman.destroyed > 0
              \/ heap.sent_nonce = 0)
             => /\ called["set_new_state"] # "NONE"
                /\ ike_sa.current_state = "IKE_AUTH_REQUESTED"
          /\ IF ike_sa.current_state = "IKE_SA_INIT_REQUESTED"
               THEN this.freed = 0 /\ this.diffie_hellman.destroyed = 0
               ELSE next_state = [created |-> 1, destroyed |-> 0]

\* C10 witness: the cleanup has run after a successful swap.
C10_Witness ==
    /\ Returned /\ ret = "SUCCESS"
    /\ ike_sa.current_state = "IKE_AUTH_REQUESTED"
    /\ this.freed = 1 /\ this.diffie_hellman.destroyed = 1
    /\ heap.sent_nonce = 0 /\ ~heap.double_free


\* the content of the last payload of type t the iterator has yielded in this
\* call, 0 when it has yielded none
LastVal(t) ==
    LET I == {i \in 1..Len(payloads.seen) : payloads.seen[i] = t}
    IN  IF I = {} THEN 0
        ELSE payloads.vals[CHOOSE i \in I : \A j \in I : j <= i]

\* the number of payloads of type t the iterator has yielded in this call
CountOf(t) == Cardinality({i \in 1..Len(payloads.seen) : payloads.seen[i] = t})

\* C11: over process_message calls followed by destroy() (when no call made
\* the transition), nothing is released twice, and while the state object
\* lives each buffer it holds is live and no other buffer is allocated;
\* once the object is released (by destroy() or by the cleanup after a
\* successful transition) the DH object has been destroyed once and no
\* sent-nonce, received-nonce or shared-secret buffer is left allocated.
C11_ReleasedExactlyOnce ==
    /\ ~heap.double_free
    /\ this.freed <= 1
    /\ this.diffie_hellman.destroyed <= 1
    /\ IF this.freed = 0
         THEN ChunksLive /\ this.diffie_hellman.destroyed = 0
         ELSE /\ this.diffie_hellman.destroyed = 1
              /\ heap.sent_nonce = 0
              /\ heap.received_nonce = 0
              /\ heap.shared_secret = 0
    /\ (pc = "destroyed" \/ (Returned /\ ike_sa.current_state = "IKE_AUTH_REQUESTED"))
       => this.freed = 1

\* C11 witness: destroy() has run after two failed calls, the second of
\* which replaced the received nonce of the first and stored a shared secret.
C11_Witness ==
    /\ pc = "destroyed" /\ calls = 2
    /\ pre.this.received_nonce # CHUNK_INITIALIZER
    /\ this.received_nonce # CHUNK_INITIALIZER
    /\ this.received_nonce # pre.this.received_nonce
    /\ this.shared_secret # CHUNK_INITIALIZER
    /\ this.freed = 1 /\ heap.received_nonce = 0 /\ heap.shared_secret = 0

\* C12: the state owns at most one received-nonce buffer at any time (a
\* second NONCE payload releases the buffer of the first, once, as it
\* stores its own); once a NONCE payload has been processed the received
\* nonce is the value of the last NONCE payload yielded, and that is the
\* value compute_secrets is given.
C12_SecondNonceOverwrites ==
    /\ heap.received_nonce <= 1
    /\ this.freed = 0
       => /\ ~heap.double_free
          /\ heap.received_nonce =
                (IF this.received_nonce = CHUNK_INITIALIZER THEN 0 ELSE 1)
    /\ (CountOf("NONCE") > 0 /\ pc # "NONCE")
       => this.received_nonce = LastVal("NONCE")
    /\ (CountOf("NONCE") > 0 /\ called["compute_secrets"] = VOID)
       => ike_sa.secrets[3] = LastVal("NONCE")

\* C12 witness: two NONCE payloads with different values in one message,
\* and compute_secrets called with the second.
C12_Witness ==
    /\ payloads.seen = <<"NONCE", "NONCE">>
    /\ payloads.vals = <<1, 2>>
    /\ called["compute_secrets"] = VOID
    /\ ike_sa.secrets[3] = 2
    /\ this.freed = 0 /\ heap.received_nonce = 1


\* a call on a parsed IKE_SA_INIT response of three payloads which, as far
\* as the iterator has yielded them, are one SA, one KE and one NONCE
ThreePayloadReply ==
    /\ Returned
    /\ HeaderValid
    /\ called["parse_body"] = "SUCCESS"
    /\ reply.payload_count = 3
    /\ OneOfEach(payloads.seen)

\* the SA payload met so far, if any, was accepted
ProposalAccepted ==
    /\ SingleProposal
    /\ called["get_ike_proposals"] \notin FailureStatuses
    /\ called["select_proposal"] \notin FailureStatuses
    /\ called["create_transforms_from_proposal"] \notin FailureStatuses

\* C13 as stated: whatever the wire order of the SA, KE and NONCE payloads,
\* the call has the outcome of the order KE, NONCE, SA, in which the peer
\* public value is fed to the DH object and the nonce is stored whatever
\* becomes of the SA payload.
C13_OrderIndependent ==
    ThreePayloadReply
    => /\ called["set_other_public_value"] = VOID
       /\ called["get_nonce"] = VOID
       /\ this.diffie_hellman.other_public_value = LastVal("KEY_EXCHANGE")
       /\ this.received_nonce = LastVal("NONCE")

\* C13 amended: when the SA payload is accepted, the outcome is a function
\* of the payload contents and the collaborator results alone, the same in
\* every wire order: the peer public value fed, the received nonce, the
\* shared secret, the arguments of compute_secrets and the status returned.
C13_AcceptedOrderIndependent ==
    (ThreePayloadReply /\ ProposalAccepted)
    => LET ke == LastVal("KEY_EXCHANGE")
           nonce == LastVal("NONCE")
           secret == IF called["get_shared_secret"] = "SUCCESS"
                       THEN SharedSecretOf(ke) ELSE CHUNK_INITIALIZER
       IN  /\ Len(payloads.seen) = 3
           /\ called["set_other_public_value"] = VOID
           /\ called["get_nonce"] = VOID
           /\ this.diffie_hellman.other_public_value = ke
           /\ this.received_nonce = nonce
           /\ this.shared_secret = secret
           /\ ike_sa.secrets = <<secret, this.sent_nonce, nonce>>
           /\ ret = IF called["generate"] \in FailureStatuses
                      THEN called["generate"]
                    ELSE IF called["set_last_requested_message"] \in FailureStatuses
                      THEN called["set_last_requested_message"]
                    ELSE "SUCCESS"

\* C13 witness: the SA payload arrives after KE and NONCE and the secrets
\* are computed from both.
C13_Witness ==
    /\ ThreePayloadReply /\ ProposalAccepted
    /\ payloads.seen = <<"KEY_EXCHANGE", "NONCE", "SECURITY_ASSOCIATION">>
    /\ ret = "SUCCESS"
    /\ ike_sa.secrets = <<SharedSecretOf(LastVal("KEY_EXCHANGE")), this.sent_nonce, 2>>


\* C14: a call that reaches request->generate has processed an SA payload
\* and create_transforms_from_proposal has returned SUCCESS in it; a call
\* on a reply without SA payload neither generates a packet nor changes
\* the state.
C14_TransformsBeforeGenerate ==
    /\ (pc = "generate" \/ called["generate"] # "NONE")
       => /\ CountOf("SECURITY_ASSOCIATION") > 0
          /\ called["create_transforms_from_proposal"] = "SUCCESS"
    /\ CountOf("SECURITY_ASSOCIATION") = 0
       => /\ called["generate"] = "NONE"
          /\ called["set_new_state"] = "NONE"

\* C15: a call that calls compute_secrets has processed a KE payload
\* (set_other_public_value) and a NONCE payload (received nonce stored) in
\* the same call; a call on a reply without KE or without NONCE derives no
\* keys and makes no transition.
C15_KeAndNonceBeforeSecrets ==
    /\ called["compute_secrets"] # "NONE"
       => /\ called["set_other_public_value"] = VOID
          /\ called["get_nonce"] = VOID
          /\ this.received_nonce # CHUNK_INITIALIZER
    /\ (CountOf("KEY_EXCHANGE") = 0 \/ CountOf("NONCE") = 0)
       => /\ called["compute_secrets"] = "NONE"
          /\ called["set_new_state"] = "NONE"

\* C16: between calls the IKE_SA has one current state object and it is
\* live: the IKE_SA_INIT_REQUESTED object as long as no call has called
\* set_new_state, the IKE_AUTH_REQUESTED object (with the old one released)
\* afterwards; a successor that was constructed and not installed has been
\* destroyed.
C16_OneLiveCurrentState ==
    pc = "idle"
    => IF ike_sa.current_state = "IKE_SA_INIT_REQUESTED"
         THEN /\ this.freed = 0
              /\ called["set_new_state"] = "NONE"
              /\ next_state.destroyed = next_state.created
         ELSE /\ ike_sa.current_state = "IKE_AUTH_REQUESTED"
              /\ called["set_new_state"] = VOID
              /\ next_state = [created |-> 1, destroyed |-> 0]
              /\ this.freed = 1

\* C16 witness: a first call constructed a successor and discarded it
\* (its packet is in the queue), a second call installed its own.
C16_Witness ==
    /\ Returned /\ calls = 2
    /\ ike_sa.current_state = "IKE_AUTH_REQUESTED"
    /\ Len(send_queue) = 2
    /\ next_state = [created |-> 1, destroyed |-> 0]

\* C17: a call returns SUCCESS if and only if it replaced the current state
\* by IKE_AUTH_REQUESTED.
C17_SuccessIffTransition ==
    Returned
    => (ret = "SUCCESS" <=> ike_sa.current_state = "IKE_AUTH_REQUESTED")

\* C18: a call adds at most one packet to the send queue, and adds it
\* before the successor state is constructed and before
\* set_last_requested_message is called; a call in which
\* set_last_requested_message failed returns a failure status in state
\* IKE_SA_INIT_REQUESTED with its packet in the send queue.
C18_EnqueueBeforeBookkeeping ==
    /\ send_queue \in {pre.send_queue, Append(pre.send_queue, AuthPacket)}
    /\ (next_state.created = 1 \/ pc = "set_last_requested_message"
        \/ called["set_last_requested_message"] # "NONE")
       => /\ called["send_queue_add"] = VOID
          /\ send_queue = Append(pre.send_queue, AuthPacket)
    /\ (Returned /\ called["set_last_requested_message"] \in FailureStatuses)
       => /\ ret \in FailureStatuses
          /\ ike_sa.current_state = "IKE_SA_INIT_REQUESTED"
          /\ send_queue = Append(pre.send_queue, AuthPacket)

\* C18 witness: two calls failed in set_last_requested_message and each
\* left its packet in the send queue.
C18_Witness ==
    /\ Returned /\ calls = 2
    /\ called["set_last_requested_message"] \in FailureStatuses
    /\ ike_sa.current_state = "IKE_SA_INIT_REQUESTED"
    /\ send_queue = <<AuthPacket, AuthPacket>>

\* releases of the reply when the caller releases it once after the return
ReleasesWithCaller == reply_obj.destroyed + 1

\* C19: the reply is released by process_message exactly when generate()
\* has failed, and then once; on every other return it is left to the
\* caller, so a caller releasing it after every return releases it twice
\* after a generate() failure and once otherwise.
C19_ReplyReleasedOnGenerateFailureOnly ==
    /\ reply_obj.destroyed = (IF called["generate"] \in FailureStatuses THEN 1 ELSE 0)
    /\ Returned
       => ReleasesWithCaller = (IF called["generate"] \in FailureStatuses THEN 2 ELSE 1)

\* C19 witness: generate() failed and the reply was released before the return.
C19_Witness ==
    /\ Returned /\ called["generate"] \in FailureStatuses
    /\ reply_obj.destroyed = 1 /\ reply_obj.parsed
    /\ ReleasesWithCaller = 2


\* process_message has been entered and has not returned
InCall == pc \notin {"idle", "destroyed"}

\* C20: every call of process_message eventually returns a status, and at
\* the return the payload iterator, if the call obtained it, has been
\* destroyed exactly once (it is never destroyed twice, nor without having
\* been obtained).
C20_CallReturnsOnce ==
    /\ InCall ~> (pc = "idle" /\ ret \in Statuses)
    /\ [](/\ payloads.destroyed <= payloads.created
          /\ payloads.created <= 1
          /\ Returned => payloads.destroyed = payloads.created)

\* C20 witness: a call that iterated over three payloads has returned with
\* its iterator destroyed once.
C20_Witness ==
    /\ Returned /\ ret \in Statuses
    /\ payloads.pos = 3
    /\ payloads.created = 1 /\ payloads.destroyed = 1

=============================================================================
